---- MODULE Spec2Model ----
(***************************************************************************)
(* Photo calendar editor: the overlay geometry (stage sizing, drag, resize) *)
(* of PhotoEditor.tsx, the selection state, the filter bake and the export  *)
(* pipeline (getCleanRender / captureCanvas, driven by App.handleDownload). *)
(*                                                                          *)
(* JavaScript numbers are modelled as exact rationals [n, d] (d > 0, lowest *)
(* terms), so that scaling by 0.6, 850/1000 or maxWidth/width is computed   *)
(* and not rounded.                                                         *)
(***************************************************************************)
EXTENDS Integers, Sequences, FiniteSets, TLC

VARIABLES
    \* ---- App.tsx state
    userImage,       \* FALSE = null (upload view), TRUE = a photo is being edited
    isDownloading,   \* App: useState(false)
    error,           \* App: the error notice, "none" when null
    \* ---- environment
    innerWidth,      \* window.innerWidth
    innerHeight,     \* window.innerHeight
    isIOSDevice,     \* isIOS(), set on mount
    isAndroidDevice, \* isAndroid(), set on mount
    \* ---- PhotoEditor.tsx state
    isMobile,        \* useState(window.innerWidth <= 768)
    userImg,         \* 0 until useImage(userImage) has decoded the photo,
                     \* then the index into Photos of its natural size
    calendarImage,   \* TRUE once useImage(calendarDataUrl) has loaded
    photoSize,       \* {width, height}
    calendarAttrs,   \* {x, y, width, height}: the committed overlay transform
    node,            \* the Konva Group node: live x, y, scaleX, scaleY
    lastCommit,      \* which code wrote calendarAttrs last
    lastBound,       \* the last call of the Transformer's boundBoxFunc
    currentDate,     \* new Date() at mount: {month, year}
    calendarMonth,   \* useState(currentDate.getMonth())
    calendarYear,    \* useState(currentDate.getFullYear())
    drawn,           \* what CalendarGenerator's renderCalendar drew last
    selectedFont,    \* useState('Shooting Star')
    fontsLoaded,     \* the fonts document.fonts.check() answers true for
    effectRan,       \* the props CalendarGenerator's effect ran with last
    renders,         \* the renderCalendar calls waiting in loadFont
    isSelected,      \* useState(false)
    selectedFilter,  \* useState('none')
    filteredImage,   \* "null", or the filter whose bake of the photo it holds
    bake,            \* the filter effect's pending image load and 3000 ms timer
    displayImage,    \* useImage(filteredImage || userImage): "none" while loading,
                     \* "photo", or the filter whose baked raster it shows
    \* ---- the export in flight (getCleanRender / captureCanvas)
    exp,             \* position and closure of the running getCleanRender call
    captures,        \* the capture steps of the current or last export
    outcome,         \* how the last export settled
    inFlight         \* getCleanRender calls neither resolved nor rejected

appVars == <<userImage, isDownloading, error>>
viewVars == <<innerWidth, innerHeight, isMobile>>
deviceVars == <<isIOSDevice, isAndroidDevice>>
imgVars == <<userImg, calendarImage>>
geoVars == <<photoSize, calendarAttrs, node, lastCommit, lastBound>>
calVars == <<currentDate, calendarMonth, calendarYear, drawn, selectedFont,
             fontsLoaded, effectRan, renders>>
filterVars == <<selectedFilter, filteredImage, bake, displayImage>>
exportVars == <<exp, captures, outcome, inFlight>>
vars == <<appVars, viewVars, deviceVars, imgVars, geoVars, calVars,
          isSelected, filterVars, exportVars>>

----------------------------------------------------------------------------
(* Exact rational arithmetic standing for JavaScript numbers.              *)

RECURSIVE Gcd(_, _)
Gcd(a, b) == IF b = 0 THEN a ELSE Gcd(b, a % b)

Abs(a) == IF a < 0 THEN 0 - a ELSE a

Rat(n, d) ==
    LET g == Gcd(Abs(n), Abs(d))
        s == IF d < 0 THEN 0 - 1 ELSE 1
    IN  [n |-> (s * n) \div g, d |-> (s * d) \div g]

Num(i) == [n |-> i, d |-> 1]

\* sums over the least common denominator, products cancelled crosswise first
RAdd(a, b) ==
    LET g == Gcd(a.d, b.d)
    IN  Rat(a.n * (b.d \div g) + b.n * (a.d \div g), (a.d \div g) * b.d)
RNeg(a) == [n |-> 0 - a.n, d |-> a.d]
RSub(a, b) == RAdd(a, RNeg(b))
RMul(a, b) ==
    LET g1 == Gcd(Abs(a.n), b.d)
        g2 == Gcd(Abs(b.n), a.d)
    IN  Rat((a.n \div g1) * (b.n \div g2), (a.d \div g2) * (b.d \div g1))
RInv(a) == IF a.n < 0 THEN [n |-> 0 - a.d, d |-> 0 - a.n] ELSE [n |-> a.d, d |-> a.n]
RDiv(a, b) == RMul(a, RInv(b))
RLt(a, b) == a.n * b.d < b.n * a.d
RLe(a, b) == a.n * b.d <= b.n * a.d
RMin(a, b) == IF RLe(a, b) THEN a ELSE b
RMax(a, b) == IF RLe(a, b) THEN b ELSE a

----------------------------------------------------------------------------
(* Inputs: the photos a user may upload and the viewports of the device.   *)

\* natural sizes: large landscape, panorama, thumbnail, portrait
Photos == << [width |-> 4000, height |-> 3000],
             [width |-> 2000, height |-> 500],
             [width |-> 80,   height |-> 80],
             [width |-> 1500, height |-> 4000] >>

\* window.innerWidth x window.innerHeight
Viewports == { <<1600, 900>>, <<1000, 1000>>, <<400, 1000>> }

\* positions a drag may drop the overlay at (e.target.x(), e.target.y())
\* (left of and above the stage, inside it, far beyond its right and bottom
\* edges, and mixed)
DragPositions ==
    { <<Num(0 - 100), Num(0 - 100)>>, <<Num(30), Num(30)>>,
      <<Num(2000), Num(2000)>>, <<Num(0 - 100), Num(2000)>>,
      <<Num(2000), Num(30)>> }

Box(x, y, w, h) == [x |-> Num(x), y |-> Num(y), width |-> Num(w), height |-> Num(h)]

\* candidate boxes the Transformer proposes while a handle is dragged: below
\* the minimum width, below the minimum height, inside the stage, over the left/top edges, over the
\* right/bottom edges, over all four edges, and over the left/top edges by
\* so much that the clamped size falls below the minimum
CandidateBoxes ==
    { Box(10, 10, 30, 200), Box(10, 10, 200, 30), Box(10, 10, 200, 160),
      Box(0 - 20, 0 - 20, 200, 160), Box(10, 10, 3000, 3000),
      Box(0 - 20, 0 - 20, 3000, 3000), Box(0 - 20, 0 - 20, 60, 60) }

----------------------------------------------------------------------------
(* PhotoEditor geometry.                                                    *)

MinBoxSize == 50
MobileBreakpoint == 768
MaxCalendarWidth == 600

\* useState initial values
InitPhotoSize == [width |-> Num(800), height |-> Num(600)]
InitCalendarAttrs ==
    [x |-> Num(50), y |-> Num(50), width |-> Num(400), height |-> Num(350)]
InitNode ==
    [x |-> Num(50), y |-> Num(50), scaleX |-> Num(1), scaleY |-> Num(1),
     width |-> Num(400), height |-> Num(350),
     childWidth |-> Num(400), childHeight |-> Num(350),
     transforming |-> FALSE]

\* no call of boundBoxFunc since the last transform-end
NoBound == [called |-> FALSE, oldBox |-> Box(0, 0, 0, 0),
            newBox |-> Box(0, 0, 0, 0), box |-> Box(0, 0, 0, 0)]

keepCalendarWithinBounds(newAttrs, stage) ==
    LET x == newAttrs.x
        y == newAttrs.y
        constrainedX ==
            IF RLt(x, Num(0)) THEN Num(0)
            ELSE IF RLt(stage.width, RAdd(x, newAttrs.width))
                 THEN RMax(Num(0), RSub(stage.width, newAttrs.width))
                 ELSE x
        constrainedY ==
            IF RLt(y, Num(0)) THEN Num(0)
            ELSE IF RLt(stage.height, RAdd(y, newAttrs.height))
                 THEN RMax(Num(0), RSub(stage.height, newAttrs.height))
                 ELSE y
    IN  [newAttrs EXCEPT !.x = constrainedX, !.y = constrainedY]

\* variant: the stage fitted to the maximum width only
StageSizeWidthOnly(img, mobile, iw, ih) ==
    LET maxWidth == IF mobile THEN Rat(iw * 95, 100) ELSE Rat(iw * 8, 10)
        w0 == Num(img.width)
        h0 == Num(img.height)
    IN  IF RLt(maxWidth, w0)
        THEN [width |-> maxWidth, height |-> RMul(h0, RDiv(maxWidth, w0))]
        ELSE [width |-> w0, height |-> h0]

\* The effect on [userImg, isMobile]: the stage size for a loaded photo.
StageSize(img, mobile, iw, ih) ==
    LET maxWidth == IF mobile THEN Rat(iw * 95, 100) ELSE Rat(iw * 8, 10)
        maxHeight == IF mobile THEN Rat(ih * 35, 100) ELSE Rat(ih * 6, 10)
        w0 == Num(img.width)
        h0 == Num(img.height)
        wide == RLt(maxWidth, w0)
        w1 == IF wide THEN maxWidth ELSE w0
        h1 == IF wide THEN RMul(h0, RDiv(maxWidth, w0)) ELSE h0
        tall == RLt(maxHeight, h1)
        h2 == IF tall THEN RMul(h1, RDiv(maxHeight, h1)) ELSE h1
        w2 == IF tall THEN RMul(w1, RDiv(maxHeight, h1)) ELSE w1
    IN  [width |-> w2, height |-> h2]

\* The same effect: the overlay placed for a stage size.
CalendarPlacement(stage) ==
    LET calendarWidth == RMin(RMul(stage.width, Rat(6, 10)), Num(MaxCalendarWidth))
        calendarHeight == RMul(calendarWidth, Rat(850, 1000))
    IN  [x |-> RDiv(RSub(stage.width, calendarWidth), Num(2)),
         y |-> RDiv(RSub(stage.height, calendarHeight), Num(2)),
         width |-> calendarWidth,
         height |-> calendarHeight]

\* react-konva applies a changed prop to the node and leaves the others alone
ApplyProps(n, oldAttrs, newAttrs) ==
    [n EXCEPT !.x = IF newAttrs.x # oldAttrs.x THEN newAttrs.x ELSE @,
              !.y = IF newAttrs.y # oldAttrs.y THEN newAttrs.y ELSE @,
              !.width =
                  IF newAttrs.width # oldAttrs.width THEN newAttrs.width ELSE @,
              !.height =
                  IF newAttrs.height # oldAttrs.height THEN newAttrs.height
                  ELSE @,
              !.childWidth =
                  IF newAttrs.width # oldAttrs.width THEN newAttrs.width ELSE @,
              !.childHeight =
                  IF newAttrs.height # oldAttrs.height THEN newAttrs.height
                  ELSE @]

\* variant: a transform-end that leaves the node's scale as the gesture
\* left it
ResetScaleSkipped(n) == n

\* node.scaleX(1); node.scaleY(1)
ResetScale(n) == [n EXCEPT !.scaleX = Num(1), !.scaleY = Num(1)]

\* children.forEach: child.width(...), child.height(...)
SizeChildren(n, attrs) ==
    [n EXCEPT !.childWidth = attrs.width, !.childHeight = attrs.height]

\* variant: a candidate below the minimum size raised to it, not rejected
boundBoxFuncFloors(oldBox, newBox, stage) ==
    [newBox EXCEPT !.width = RMax(@, Num(MinBoxSize)),
                   !.height = RMax(@, Num(MinBoxSize))]

\* Transformer boundBoxFunc
boundBoxFunc(oldBox, newBox, stage) ==
    IF RLt(newBox.width, Num(MinBoxSize)) \/ RLt(newBox.height, Num(MinBoxSize))
    THEN oldBox
    ELSE IF \/ RLt(newBox.x, Num(0))
            \/ RLt(newBox.y, Num(0))
            \/ RLt(stage.width, RAdd(newBox.x, newBox.width))
            \/ RLt(stage.height, RAdd(newBox.y, newBox.height))
    THEN
        LET w1 == IF RLt(newBox.x, Num(0))
                  THEN RAdd(newBox.width, newBox.x) ELSE newBox.width
            x1 == IF RLt(newBox.x, Num(0)) THEN Num(0) ELSE newBox.x
            w2 == IF RLt(stage.width, RAdd(newBox.x, newBox.width))
                  THEN RSub(stage.width, newBox.x) ELSE w1
            h1 == IF RLt(newBox.y, Num(0))
                  THEN RAdd(newBox.height, newBox.y) ELSE newBox.height
            y1 == IF RLt(newBox.y, Num(0)) THEN Num(0) ELSE newBox.y
            h2 == IF RLt(stage.height, RAdd(newBox.y, newBox.height))
                  THEN RSub(stage.height, newBox.y) ELSE h1
            w3 == IF RLt(w2, Num(MinBoxSize)) THEN Num(MinBoxSize) ELSE w2
            h3 == IF RLt(h2, Num(MinBoxSize)) THEN Num(MinBoxSize) ELSE h2
        IN  [x |-> x1, y |-> y1, width |-> w3, height |-> h3]
    ELSE newBox

\* the box of the Group node as the Transformer sees it
NodeBox ==
    [x |-> node.x, y |-> node.y,
     width |-> RMul(calendarAttrs.width, node.scaleX),
     height |-> RMul(calendarAttrs.height, node.scaleY)]

\* variant: the Transformer rendered without regard to isDownloading
TransformerRenderedWhileDownloading == isSelected /\ calendarImage

\* {isSelected && !isDownloading && calendarRef.current && <Transformer/>}
TransformerRendered == isSelected /\ ~isDownloading /\ calendarImage

----------------------------------------------------------------------------
(* The calendar: month navigation (PhotoEditor.changeMonth) and the day     *)
(* grid drawn by CalendarGenerator's renderCalendar.                        *)

\* the years month navigation may reach
MinYear == 2024
MaxYear == 2027

\* the dates the editor may be mounted on (month is 0-based, as getMonth())
MountDates ==
    { [month |-> 1, year |-> 2024], [month |-> 11, year |-> 2025],
      [month |-> 10, year |-> 2026] }

MountDate == [month |-> 10, year |-> 2026]

GridRows == 6
GridCols == 7

\* the day count of a civil date (1970-01-01 is day 0), m in 1..12
DaysFromCivil(y, m, d) ==
    LET yy == IF m <= 2 THEN y - 1 ELSE y
        era == yy \div 400
        yoe == yy - (era * 400)
        mp == IF m > 2 THEN m - 3 ELSE m + 9
        doy == (((153 * mp) + 2) \div 5) + d - 1
        doe == (yoe * 365) + (yoe \div 4) - (yoe \div 100) + doy
    IN  (era * 146097) + doe - 719468

\* new Date(year, monthIndex, day): a month index of 12 rolls into the next
\* year, and day 0 is the day before day 1
DateValue(year, monthIndex, day) ==
    DaysFromCivil(year + (monthIndex \div 12), (monthIndex % 12) + 1, 1) + day - 1

\* Date.getDay(): 0 is Sunday; day 0 was a Thursday
getDay(date) == (date + 4) % 7

\* new Date(year, month, 1).getDay()
firstDay(month, year) == getDay(DateValue(year, month, 1))

\* new Date(year, month + 1, 0).getDate(): the day of the month of the day
\* before the next month's first, counted from this month's first
daysInMonth(month, year) ==
    DateValue(year, month + 1, 0) - DateValue(year, month, 1) + 1

\* variant: the day number one too small
dayNumFromZero(row, col, first) == (row * GridCols) + col - first

\* const dayNum = row * 7 + col - firstDay + 1
dayNum(row, col, first) == (row * GridCols) + col - first + 1

\* the grid loop of renderCalendar: the day drawn in each of the 6 x 7 cells
\* in row order, 0 where nothing is drawn
DayGrid(month, year) ==
    [ i \in 1..(GridRows * GridCols) |->
        LET n == dayNum((i - 1) \div GridCols, (i - 1) % GridCols,
                        firstDay(month, year))
        IN  IF n > 0 /\ n <= daysInMonth(month, year) THEN n ELSE 0 ]

\* three of AVAILABLE_FONTS, the first being the initial selectedFont
Fonts == { "Shooting Star", "Have Idea", "Pacifico" }

DefaultFont == "Shooting Star"

\* the month, year and font the last renderCalendar ran with; its cells are
\* DayGrid of them
NothingDrawn == [month |-> 0 - 1, year |-> 0 - 1, font |-> "none"]

\* the calendar state after construction, mounted on a given date with the
\* given fonts ready
CalendarInitWith(date, loaded) ==
    /\ currentDate = date
    /\ calendarMonth = date.month
    /\ calendarYear = date.year
    /\ drawn = NothingDrawn
    /\ selectedFont = DefaultFont
    /\ fontsLoaded = loaded
    /\ effectRan = NothingDrawn
    /\ renders = {}

\* the fonts of index.css all ready at mount
CalendarInitAt(date) == CalendarInitWith(date, Fonts)

\* variant: month navigation that never changes the year
changeMonthKeepsYear(month, year, delta) ==
    [month |-> (month + delta + 12) % 12, year |-> year]

\* changeMonth: the month and year it sets
changeMonthResult(month, year, delta) ==
    LET newMonth == month + delta
    IN  IF newMonth > 11 THEN [month |-> 0, year |-> year + 1]
        ELSE IF newMonth < 0 THEN [month |-> 11, year |-> year - 1]
        ELSE [month |-> newMonth, year |-> year]

----------------------------------------------------------------------------
\* where the page runs: window size and device, for the export pipeline
\* (desktop, narrow desktop window, Android phone, iPhone, Android tablet)
Platforms ==
    { <<1600, 900, "desktop">>, <<400, 1000, "desktop">>,
      <<400, 1000, "android">>, <<400, 1000, "ios">>,
      <<1000, 1000, "android">> }

\* the same, with a tablet held upright and a narrow, tall desktop window,
\* for the sizes of the export canvas
SizePlatforms ==
    Platforms \cup { <<768, 1024, "ios">>, <<375, 1600, "desktop">> }

\* no bake pending: no image loading, no timeout armed
NoBake == [img |-> "none", timer |-> "off"]

\* no getCleanRender call in flight
\* (isMobile, selectedFilter, displayImage and calendarImage are the values
\* the getCleanRender closure was created with)
IdleExport ==
    [pc |-> "idle", wasSelected |-> FALSE, unmounted |-> FALSE,
     isMobile |-> FALSE, selectedFilter |-> "none", displayImage |-> "none",
     calendarImage |-> FALSE, wait |-> "none", timer |-> FALSE,
     stage |-> InitPhotoSize]

NoOutcome == [status |-> "none", url |-> "none", cause |-> "none",
              length |-> 0, error |-> "none"]

\* the state after construction, on a given platform
InitOn(w, h, device) ==
    /\ userImage = FALSE
    /\ isDownloading = FALSE
    /\ error = "none"
    /\ innerWidth = w
    /\ innerHeight = h
    /\ isMobile = (w <= MobileBreakpoint)
    /\ isIOSDevice = (device = "ios")
    /\ isAndroidDevice = (device = "android")
    /\ userImg = 0
    /\ calendarImage = FALSE
    /\ photoSize = InitPhotoSize
    /\ calendarAttrs = InitCalendarAttrs
    /\ node = InitNode
    /\ lastCommit = "mount"
    /\ lastBound = NoBound
    /\ isSelected = FALSE
    /\ selectedFilter = "none"
    /\ filteredImage = "null"
    /\ bake = NoBake
    /\ displayImage = "none"
    /\ exp = IdleExport
    /\ captures = << >>
    /\ outcome = NoOutcome
    /\ inFlight = 0

Init ==
    /\ \E pf \in Platforms : InitOn(pf[1], pf[2], pf[3])
    /\ CalendarInitAt(MountDate)

GeomInit ==
    /\ \E v \in Viewports : InitOn(v[1], v[2], "desktop")
    /\ CalendarInitAt(MountDate)

SizeInit ==
    /\ \E pf \in SizePlatforms : InitOn(pf[1], pf[2], pf[3])
    /\ CalendarInitAt(MountDate)

\* renders waiting for their font at the same time
MaxPendingRenders == 2

RenderInit ==
    /\ InitOn(1600, 900, "desktop")
    /\ \E loaded \in SUBSET Fonts : CalendarInitWith(MountDate, loaded)

\* screen widths on both sides of every threshold of the export multiplier
RatioViewports ==
    { <<375, 800>>, <<376, 800>>, <<428, 800>>, <<429, 800>>, <<768, 800>>,
      <<769, 800>> }

RatioInit ==
    /\ \E v \in RatioViewports : InitOn(v[1], v[2], "desktop")
    /\ CalendarInitAt(MountDate)

CalInit ==
    /\ InitOn(1600, 900, "desktop")
    /\ \E date \in MountDates : CalendarInitAt(date)

\* App.handleFileChange: a photo is chosen and the editor is mounted
handleFileChange ==
    /\ ~userImage
    /\ userImage' = TRUE
    /\ error' = "none"
    /\ UNCHANGED <<isDownloading, viewVars, deviceVars, calVars, imgVars, geoVars,
                   isSelected, filterVars, exportVars>>

\* App.handleBack: the editor is unmounted; a later mount starts afresh.
\* (A resize gesture, from its first handle move to its transform-end, is
\* modelled without another handler interleaved: the pointer is held on the
\* handle, and an image load or a viewport change in the middle of it would
\* only compound the node's scale with a width it was not computed for.)
handleBack ==
    /\ userImage
    /\ ~node.transforming
    /\ userImage' = FALSE
    /\ error' = "none"
    /\ userImg' = 0
    /\ calendarImage' = FALSE
    /\ photoSize' = InitPhotoSize
    /\ calendarAttrs' = InitCalendarAttrs
    /\ node' = InitNode
    /\ lastCommit' = "mount"
    /\ lastBound' = NoBound
    /\ calendarMonth' = currentDate.month
    /\ calendarYear' = currentDate.year
    /\ drawn' = NothingDrawn
    /\ selectedFont' = DefaultFont
    /\ effectRan' = NothingDrawn
    /\ renders' = {}
    /\ isSelected' = FALSE
    /\ selectedFilter' = "none"
    /\ filteredImage' = "null"
    /\ bake' = NoBake
    /\ displayImage' = "none"
    /\ exp' = IF exp.pc = "idle" THEN exp ELSE [exp EXCEPT !.unmounted = TRUE]
    /\ UNCHANGED <<isDownloading, viewVars, deviceVars, currentDate, fontsLoaded,
                   captures, outcome, inFlight>>

\* the effect on [userImg, isMobile] (setPhotoSize, setCalendarAttrs)
StageEffect(img, mobile, iw, ih) ==
    LET stage == StageSize(Photos[img], mobile, iw, ih)
        placed == CalendarPlacement(stage)
    IN  /\ photoSize' = stage
        /\ calendarAttrs' = placed
        /\ node' = ApplyProps(node, calendarAttrs, placed)
        /\ lastCommit' = "place"
        /\ UNCHANGED lastBound

\* useImage(userImage) delivers the decoded photo
UserImgLoad(p) ==
    /\ userImage
    /\ ~node.transforming
    /\ userImg = 0
    /\ userImg' = p
    /\ StageEffect(p, isMobile, innerWidth, innerHeight)
    /\ UNCHANGED <<appVars, viewVars, deviceVars, calVars, calendarImage, isSelected,
                   filterVars, exportVars>>

\* useImage(calendarDataUrl) delivers the calendar raster
CalendarImageLoad ==
    /\ userImage
    /\ ~node.transforming
    /\ drawn # NothingDrawn
    /\ ~calendarImage
    /\ calendarImage' = TRUE
    /\ UNCHANGED <<appVars, viewVars, deviceVars, calVars, userImg, geoVars, isSelected,
                   filterVars, exportVars>>

\* the props CalendarGenerator is rendered with (fontColor is left out: it
\* is one more field that font changes stand for)
CalendarProps ==
    [month |-> calendarMonth, year |-> calendarYear, font |-> selectedFont]

\* onGenerate(canvas.toDataURL(...)) = setCalendarDataUrl: useImage drops its
\* image when the URL changes, until the new one has loaded
onGenerate(props) ==
    /\ drawn' = props
    /\ calendarImage' = IF props = drawn THEN calendarImage ELSE FALSE

\* the CalendarGenerator effect on [month, year, fontName, ...] with the
\* font ready: loadFont resolves at once and renderCalendar draws the grid
\* and hands its data URL to onGenerate
renderCalendar ==
    /\ userImage
    /\ ~node.transforming
    /\ effectRan # CalendarProps
    /\ selectedFont \in fontsLoaded
    /\ effectRan' = CalendarProps
    /\ onGenerate(CalendarProps)
    /\ UNCHANGED <<appVars, viewVars, deviceVars, currentDate, calendarMonth,
                   calendarYear, selectedFont, fontsLoaded, renders, userImg,
                   geoVars, isSelected, filterVars, exportVars>>

\* the same effect with the font not ready: renderCalendar waits in
\* loadFont for FontFace.load(), which settles or never does; the effect
\* has no cleanup, so the renders of earlier props keep waiting
renderCalendarWaits(wait) ==
    /\ userImage
    /\ ~node.transforming
    /\ effectRan # CalendarProps
    /\ selectedFont \notin fontsLoaded
    /\ Cardinality(renders) < MaxPendingRenders
    /\ effectRan' = CalendarProps
    /\ renders' = renders \cup { [props |-> CalendarProps, wait |-> wait] }
    /\ UNCHANGED <<appVars, viewVars, deviceVars, currentDate, calendarMonth,
                   calendarYear, drawn, selectedFont, fontsLoaded, imgVars,
                   geoVars, isSelected, filterVars, exportVars>>

\* FontFace.load() of a waiting render settles: loaded (document.fonts.add)
\* or failed for both paths (fallback font); loadFont resolves either way
\* and the render draws with the props of its closure
FontLoadSettled(r, loaded) ==
    /\ userImage
    /\ ~node.transforming
    /\ r \in renders
    /\ r.wait = "settles"
    /\ renders' = renders \ { r }
    /\ fontsLoaded' = IF loaded THEN fontsLoaded \cup { r.props.font }
                      ELSE fontsLoaded
    /\ onGenerate(r.props)
    /\ UNCHANGED <<appVars, viewVars, deviceVars, currentDate, calendarMonth,
                   calendarYear, selectedFont, effectRan, userImg, geoVars,
                   isSelected, filterVars, exportVars>>

\* the font select of the controls panel, rendered when !isDownloading
handleFontChange(font) ==
    /\ userImage
    /\ ~isDownloading
    /\ ~node.transforming
    /\ font # selectedFont
    /\ font \in fontsLoaded \/ Cardinality(renders) < MaxPendingRenders
    /\ selectedFont' = font
    /\ UNCHANGED <<appVars, viewVars, deviceVars, currentDate, calendarMonth,
                   calendarYear, drawn, fontsLoaded, effectRan, renders,
                   imgVars, geoVars, isSelected, filterVars, exportVars>>

\* the Previous / Next Month buttons of the controls panel, rendered when
\* !isDownloading
changeMonth(delta) ==
    /\ userImage
    /\ ~isDownloading
    /\ ~node.transforming
    /\ LET new == changeMonthResult(calendarMonth, calendarYear, delta)
       IN  /\ new.year \in MinYear..MaxYear
           /\ calendarMonth' = new.month
           /\ calendarYear' = new.year
    /\ UNCHANGED <<appVars, viewVars, deviceVars, currentDate, drawn,
                   selectedFont, fontsLoaded, effectRan, renders, imgVars,
                   geoVars, isSelected, filterVars, exportVars>>

\* window 'resize': handleResize, then the effect if isMobile changed
handleResize(v) ==
    /\ <<innerWidth, innerHeight>> # v
    /\ ~node.transforming
    /\ innerWidth' = v[1]
    /\ innerHeight' = v[2]
    /\ isMobile' = (v[1] <= MobileBreakpoint)
    /\ IF userImage /\ userImg # 0 /\ isMobile' # isMobile
       THEN StageEffect(userImg, isMobile', v[1], v[2])
       ELSE UNCHANGED geoVars
    /\ UNCHANGED <<appVars, deviceVars, calVars, imgVars, isSelected, filterVars,
                   exportVars>>

\* variant: a stage handler that toggles the selection on a stage click
StageClickToggles(target, selected) ==
    IF target = "stage" THEN ~selected ELSE selected

\* the Stage's onClick / onTap handler (handleDeselect) for an event with
\* the given target, selected being what the handlers before it have set
StageClick(target, selected) ==
    IF target = "stage" THEN FALSE ELSE selected

\* Group onClick / onTap (handleSelect); the event then bubbles to the
\* Stage's handler with the overlay's shape as its target
handleSelect ==
    /\ userImage
    /\ calendarImage
    /\ ~node.transforming
    /\ isSelected' = StageClick("overlay", TRUE)
    /\ UNCHANGED <<appVars, viewVars, deviceVars, calVars, imgVars, geoVars, filterVars,
                   exportVars>>

\* Group onDblClick / onDblTap, bubbling to the Stage like a click
onDblClick ==
    /\ userImage
    /\ calendarImage
    /\ ~node.transforming
    /\ isSelected' = StageClick("overlay", TRUE)
    /\ UNCHANGED <<appVars, viewVars, deviceVars, calVars, imgVars, geoVars, filterVars,
                   exportVars>>

\* the effect on [isSelected] catches an error of attaching the Transformer
\* to the overlay node and deselects
AttachError ==
    /\ userImage
    /\ ~node.transforming
    /\ TransformerRendered
    /\ isSelected' = FALSE
    /\ UNCHANGED <<appVars, viewVars, deviceVars, calVars, imgVars, geoVars, filterVars,
                   exportVars>>

\* Stage onClick / onTap with e.target === e.target.getStage()
handleDeselect ==
    /\ userImage
    /\ ~node.transforming
    /\ isSelected' = StageClick("stage", isSelected)
    /\ UNCHANGED <<appVars, viewVars, deviceVars, calVars, imgVars, geoVars, filterVars,
                   exportVars>>

\* variant: a drag-end that leaves the node where it was dropped
SnapNodeSkipped(n, attrs) == n

\* e.target.position(constrainedAttrs) if the drop position was constrained
SnapNode(n, attrs) ==
    IF n.x # attrs.x \/ n.y # attrs.y
    THEN [n EXCEPT !.x = attrs.x, !.y = attrs.y]
    ELSE n

\* Group onDragEnd, the node dropped at (px, py); draggable={!isDownloading}
onDragEnd(px, py) ==
    /\ userImage
    /\ calendarImage
    /\ ~isDownloading
    /\ ~node.transforming
    /\ LET newAttrs == [calendarAttrs EXCEPT !.x = px, !.y = py]
           constrainedAttrs == keepCalendarWithinBounds(newAttrs, photoSize)
           dropped == [node EXCEPT !.x = px, !.y = py]
       IN  /\ calendarAttrs' = constrainedAttrs
           /\ node' = ApplyProps(SnapNode(dropped, constrainedAttrs),
                                 calendarAttrs, constrainedAttrs)
    /\ lastCommit' = "drag"
    /\ UNCHANGED lastBound
    /\ UNCHANGED <<appVars, viewVars, deviceVars, calVars, imgVars, photoSize,
                   isSelected, filterVars, exportVars>>

\* one step of a handle drag: the Transformer fits the node into the box
\* that boundBoxFunc returns for its candidate
Transform(newBox) ==
    /\ userImage
    /\ TransformerRendered
    /\ LET box == boundBoxFunc(NodeBox, newBox, photoSize)
       IN  /\ node' = [node EXCEPT
                           !.x = box.x, !.y = box.y,
                           !.scaleX = RDiv(box.width, calendarAttrs.width),
                           !.scaleY = RDiv(box.height, calendarAttrs.height),
                           !.transforming = TRUE]
           /\ lastBound' = [called |-> TRUE, oldBox |-> NodeBox,
                            newBox |-> newBox, box |-> box]
    /\ UNCHANGED <<appVars, viewVars, deviceVars, calVars, imgVars, photoSize,
                   calendarAttrs, lastCommit, isSelected, filterVars,
                   exportVars>>

\* Group onTransformEnd
handleTransformEnd ==
    /\ userImage
    /\ calendarImage
    /\ node.transforming
    /\ LET newAttrs ==
               [x |-> node.x, y |-> node.y,
                width |-> RMin(RMul(node.width, node.scaleX),
                               photoSize.width),
                height |-> RMin(RMul(node.height, node.scaleY),
                                photoSize.height)]
           constrainedAttrs == keepCalendarWithinBounds(newAttrs, photoSize)
           reset == [SizeChildren(ResetScale(node), constrainedAttrs)
                         EXCEPT !.transforming = FALSE]
       IN  /\ calendarAttrs' = constrainedAttrs
           /\ node' = ApplyProps(reset, calendarAttrs, constrainedAttrs)
    /\ lastCommit' = "transform"
    /\ lastBound' = NoBound
    /\ UNCHANGED <<appVars, viewVars, deviceVars, calVars, imgVars, photoSize,
                   isSelected, filterVars, exportVars>>

----------------------------------------------------------------------------
(* The filter effect (useEffect on [userImage, selectedFilter, ...]).      *)

\* PHOTO_FILTERS values ('gingham' behaves as the other two named filters)
Filters == { "none", "clarendon", "juno" }

\* setFilteredImage(v); when the URL filteredImage || userImage changes,
\* useImage drops its image until the new one has loaded
SetFilteredImage(v) ==
    /\ filteredImage' = v
    /\ displayImage' = IF v = filteredImage THEN displayImage ELSE "none"

\* variant: 'none' baked like a named filter
FilterEffectBakesNone(f) ==
    IF isIOSDevice
    THEN /\ SetFilteredImage("null")
         /\ bake' = NoBake
    ELSE /\ bake' = [img |-> f,
                     timer |-> IF filteredImage = "null" THEN "sawNull"
                               ELSE "sawImage"]
         /\ UNCHANGED <<filteredImage, displayImage>>

\* variant: an effect without cleanup, the bake of the filter selected
\* before still running when 'none' is selected
FilterEffectNoCleanup(f) ==
    IF f = "none" \/ isIOSDevice
    THEN /\ SetFilteredImage("null")
         /\ UNCHANGED bake
    ELSE /\ bake' = [img |-> f,
                     timer |-> IF filteredImage = "null" THEN "sawNull"
                               ELSE "sawImage"]
         /\ UNCHANGED <<filteredImage, displayImage>>

\* the effect body for filter f, run after the previous run's cleanup
FilterEffect(f) ==
    IF f = "none" \/ isIOSDevice
    THEN /\ SetFilteredImage("null")
         /\ bake' = NoBake
    ELSE /\ bake' = [img |-> f,
                     timer |-> IF filteredImage = "null" THEN "sawNull"
                               ELSE "sawImage"]
         /\ UNCHANGED <<filteredImage, displayImage>>

\* the filter <select> of the controls panel, rendered when !isDownloading
handleFilterChange(f) ==
    /\ userImage
    /\ ~isDownloading
    /\ ~node.transforming
    /\ f # selectedFilter
    /\ selectedFilter' = f
    /\ FilterEffect(f)
    /\ UNCHANGED <<appVars, viewVars, deviceVars, calVars, imgVars, geoVars, isSelected,
                   exportVars>>

\* img.onload of the bake: ok = FALSE when a 2D context is missing or
\* drawing / encoding throws
BakeImgLoad(ok) ==
    /\ userImage
    /\ bake.img # "none"
    /\ SetFilteredImage(IF ok THEN bake.img ELSE "null")
    /\ bake' = [bake EXCEPT !.img = "none"]
    /\ UNCHANGED <<appVars, viewVars, deviceVars, calVars, imgVars, geoVars, isSelected,
                   selectedFilter, exportVars>>

\* img.onerror of the bake
BakeImgError ==
    /\ userImage
    /\ bake.img # "none"
    /\ SetFilteredImage("null")
    /\ bake' = [bake EXCEPT !.img = "none"]
    /\ UNCHANGED <<appVars, viewVars, deviceVars, calVars, imgVars, geoVars, isSelected,
                   selectedFilter, exportVars>>

\* the 3000 ms timeout of the bake; it tests the filteredImage of the render
\* the effect ran in
BakeTimeout ==
    /\ userImage
    /\ bake.timer # "off"
    /\ IF bake.timer = "sawNull"
       THEN SetFilteredImage("null")
       ELSE UNCHANGED <<filteredImage, displayImage>>
    /\ bake' = [bake EXCEPT !.timer = "off"]
    /\ UNCHANGED <<appVars, viewVars, deviceVars, calVars, imgVars, geoVars, isSelected,
                   selectedFilter, exportVars>>

\* useImage(filteredImage || userImage) delivers the image for the current URL
DisplayImageLoad ==
    /\ userImage
    /\ displayImage = "none"
    /\ displayImage' = IF filteredImage = "null" THEN "photo" ELSE filteredImage
    /\ UNCHANGED <<appVars, viewVars, deviceVars, calVars, imgVars, geoVars, isSelected,
                   selectedFilter, filteredImage, bake, exportVars>>

----------------------------------------------------------------------------
(* The export: App.handleDownload -> getCleanRender -> captureCanvas.      *)

MinDataUrlLength == 10000
MaxRetryPixelRatio == 4

\* lengths of the manual composite's data URL
DataUrlLengths == { 9999, 10000 }

\* readiness of an image handed to ensureImageLoaded: complete with
\* naturalWidth > 0; complete with naturalWidth = 0; not complete
ImageStates == { "ready", "broken", "loading" }

\* variant: the mobile multiplier whatever the screen width
ExportPixelRatioFlat(mobile, screenWidth) == IF mobile THEN 8 ELSE 3

\* exportPixelRatio
ExportPixelRatio(mobile, screenWidth) ==
    IF mobile
    THEN IF screenWidth <= 375 THEN 8
         ELSE IF screenWidth <= 428 THEN 7
         ELSE IF screenWidth <= 768 THEN 6
         ELSE 3
    ELSE 3

\* pixelRatio of the fallback stage capture
RetryPixelRatio(exportPixelRatio) ==
    IF MaxRetryPixelRatio < exportPixelRatio THEN MaxRetryPixelRatio
    ELSE exportPixelRatio

MaxDimension == 4096

\* variant: the off-screen canvas at stage size x pixel ratio, never reduced
OffscreenSizeUnclamped(stage, ratio) ==
    [width |-> RMul(stage.width, Num(ratio)),
     height |-> RMul(stage.height, Num(ratio))]

\* the off-screen canvas of the manual composite: stage size x pixel ratio,
\* scaled down by one factor when a dimension exceeds maxDimension
OffscreenSize(stage, ratio) ==
    LET targetWidth == RMul(stage.width, Num(ratio))
        targetHeight == RMul(stage.height, Num(ratio))
    IN  IF \/ RLt(Num(MaxDimension), targetWidth)
           \/ RLt(Num(MaxDimension), targetHeight)
        THEN LET scaleFactor == RMin(RDiv(Num(MaxDimension), targetWidth),
                                     RDiv(Num(MaxDimension), targetHeight))
             IN  [width |-> RMul(targetWidth, scaleFactor),
                  height |-> RMul(targetHeight, scaleFactor)]
        ELSE [width |-> targetWidth, height |-> targetHeight]

\* PHOTO_FILTERS[f].style: the CSS filter of a named filter, none for 'none'
FilterStyle(f) == IF f = "none" THEN "noStyle" ELSE f

\* currentFilterStyle (useMemo on [selectedFilter])
currentFilterStyle(f) == IF f = "none" THEN "noStyle" ELSE FilterStyle(f)

\* <div className="canvas-container" style={isIOSDevice ? ... : {}}>
ContainerStyle ==
    IF isIOSDevice THEN currentFilterStyle(selectedFilter) ELSE "noStyle"

\* the filter props spread on the photo's KonvaImage
\* variant: the style spread onto the photo node on iOS only
PhotoNodeStyleIOSOnly ==
    IF isIOSDevice THEN FilterStyle(selectedFilter) ELSE "noStyle"

PhotoNodeStyle ==
    IF isIOSDevice \/ (filteredImage = "null" /\ selectedFilter # "none")
    THEN FilterStyle(selectedFilter)
    ELSE "noStyle"

\* ctx.filter of the manual composite, set if (selectedFilter !== 'none')
ContextFilter(f) == IF f # "none" THEN FilterStyle(f) ELSE "noStyle"

\* variant: the manual composite attempted on every platform
ManualCompositeAlways(mobile) == TRUE

\* !(isMobile || isIOSDevice || isAndroidDevice) returns the direct capture
ManualCompositeNeeded(mobile) == mobile \/ isIOSDevice \/ isAndroidDevice

\* variant: a download button that is never disabled
DownloadNeverDisabled == FALSE

\* <button onClick={handleDownload} disabled={isDownloading}>
DownloadDisabled == isDownloading

\* stage.width() and stage.height() as captureCanvas read them when it
\* started: the stage of that moment, kept across its awaits
CanvasStage == IF exp.pc = "timer" THEN photoSize ELSE exp.stage

\* one capture step, with what the stage shows at that moment
Shot(kind, ratio, threw) ==
    [kind |-> kind, ratio |-> ratio, threw |-> threw,
     handles |-> TransformerRendered, selected |-> isSelected,
     selectedFilter |-> IF kind = "manual" THEN exp.selectedFilter
                        ELSE selectedFilter,
     filteredImage |-> filteredImage,
     bakePending |-> (bake.img # "none"),
     style |-> IF kind = "manual" THEN ContextFilter(exp.selectedFilter)
               ELSE PhotoNodeStyle,
     raster |-> IF kind = "manual" THEN exp.displayImage ELSE "stage",
     mobile |-> exp.isMobile, screenWidth |-> innerWidth,
     stage |-> CanvasStage,
     canvas |-> IF kind = "manual" THEN OffscreenSize(CanvasStage, ratio)
                ELSE [width |-> RMul(photoSize.width, Num(ratio)),
                      height |-> RMul(photoSize.height, Num(ratio))]]

\* variant: the manual composite returned without the length check
ManualResultUnchecked(length) == "manual"

\* the length check on the manual composite's data URL
ManualResult(length) ==
    IF length < MinDataUrlLength THEN "direct" ELSE "manual"

\* variant: a catch block that only logs
ErrorNoticeKept(status, notice) == notice

\* handleDownload's catch block: setError on a rejected export
ErrorNotice(status, notice) ==
    IF status = "rejected"
    THEN "Failed to download the image. Please try again."
    ELSE notice

\* captureCanvas().then / .catch, then handleDownload's continuation:
\* saveAs or setError, and finally setIsDownloading(false).  saveAs is the
\* file-save collaborator and is taken not to throw.
Settle(status, url, cause, length, caps) ==
    /\ isSelected' = IF exp.wasSelected /\ ~exp.unmounted THEN TRUE
                     ELSE isSelected
    /\ error' = ErrorNotice(status, error)
    /\ isDownloading' = FALSE
    /\ outcome' = [status |-> status, url |-> url, cause |-> cause,
                   length |-> length, error |-> error']
    /\ captures' = caps
    /\ exp' = IdleExport
    /\ inFlight' = inFlight - 1

\* offscreenCanvas.toDataURL and the length check
Encode(caps) ==
    \E throws \in BOOLEAN :
        IF throws
        THEN Settle("resolved", "direct", "drawError", 0, caps)
        ELSE \E length \in DataUrlLengths :
                Settle("resolved", ManualResult(length), "encoded", length,
                       Append(caps,
                              Shot("manual", caps[1].ratio, FALSE)))

\* ctx.drawImage(calendarImage, ...) with its shadow
DrawCalendar(caps) ==
    \E throws \in BOOLEAN :
        IF throws
        THEN Settle("resolved", "direct", "drawError", 0, caps)
        ELSE Encode(caps)

\* ctx.drawImage(displayImage, ...), then the calendar if there is one
DrawPhoto(caps) ==
    \E throws \in BOOLEAN :
        IF throws
        THEN Settle("resolved", "direct", "drawError", 0, caps)
        ELSE IF exp.calendarImage
        THEN \E st \in ImageStates :
                IF st = "ready"
                THEN DrawCalendar(caps)
                ELSE /\ exp' = [exp EXCEPT !.pc = "awaitCalendar",
                                           !.wait = st, !.timer = TRUE,
                                           !.stage = CanvasStage]
                     /\ captures' = caps
                     /\ UNCHANGED <<appVars, isSelected, outcome, inFlight>>
        ELSE Encode(caps)

\* the manual composite up to its first await
ManualComposite(caps) ==
    \E ctx \in BOOLEAN :
        IF ~ctx
        THEN Settle("resolved", "direct", "noContext", 0, caps)
        ELSE IF exp.displayImage = "none"
        THEN Settle("resolved", "direct", "noDisplayImage", 0, caps)
        ELSE \E st \in ImageStates :
                IF st = "ready"
                THEN DrawPhoto(caps)
                ELSE /\ exp' = [exp EXCEPT !.pc = "awaitDisplay",
                                           !.wait = st, !.timer = TRUE,
                                           !.stage = CanvasStage]
                     /\ captures' = caps
                     /\ UNCHANGED <<appVars, isSelected, outcome, inFlight>>

\* captureCanvas from its start to its first await or its end.  An unmounted
\* editor has stageRef.current = null, so both stage captures throw.
captureCanvas ==
    LET ratio == ExportPixelRatio(exp.isMobile, innerWidth)
    IN  \E directThrows \in BOOLEAN :
        IF directThrows \/ exp.unmounted
        THEN \E retryThrows \in BOOLEAN :
                LET threw == retryThrows \/ exp.unmounted
                    caps == << Shot("direct", ratio, TRUE),
                               Shot("retry", RetryPixelRatio(ratio), threw) >>
                IN  IF threw
                    THEN Settle("rejected", "none", "bothThrew", 0, caps)
                    ELSE Settle("resolved", "retry", "directThrew", 0, caps)
        ELSE LET caps == << Shot("direct", ratio, FALSE) >>
             IN  IF ~ManualCompositeNeeded(exp.isMobile)
                 THEN Settle("resolved", "direct", "desktop", 0, caps)
                 ELSE ManualComposite(caps)

\* the download button: handleDownload up to its await, with getCleanRender
\* up to the promise it returns.  The Stage is rendered whenever the editor
\* is mounted, so stageRef.current is set.
handleDownload ==
    /\ userImage
    /\ ~DownloadDisabled
    /\ ~node.transforming
    /\ error' = "none"
    /\ isDownloading' = TRUE
    /\ isSelected' = FALSE
    /\ exp' = [pc |-> "timer", wasSelected |-> isSelected, unmounted |-> FALSE,
               isMobile |-> isMobile, selectedFilter |-> selectedFilter,
               displayImage |-> displayImage, calendarImage |-> calendarImage,
               wait |-> "none", timer |-> FALSE, stage |-> photoSize]
    /\ captures' = << >>
    /\ outcome' = NoOutcome
    /\ inFlight' = inFlight + 1
    /\ UNCHANGED <<userImage, viewVars, deviceVars, calVars, imgVars, geoVars,
                   filterVars>>

\* the 300 ms timer of getCleanRender
ExportTimer ==
    /\ exp.pc = "timer"
    /\ captureCanvas
    /\ UNCHANGED <<userImage, viewVars, deviceVars, calVars, imgVars, geoVars,
                   filterVars>>

\* ensureImageLoaded: the awaited image fires 'load'
ImageLoadEvent ==
    /\ exp.pc \in { "awaitDisplay", "awaitCalendar" }
    /\ exp.wait = "loading"
    /\ IF exp.pc = "awaitDisplay" THEN DrawPhoto(captures)
       ELSE DrawCalendar(captures)
    /\ UNCHANGED <<userImage, viewVars, deviceVars, calVars, imgVars, geoVars,
                   filterVars>>

\* ensureImageLoaded: the awaited image fires 'error'
ImageErrorEvent ==
    /\ exp.pc \in { "awaitDisplay", "awaitCalendar" }
    /\ exp.wait = "loading"
    /\ Settle("resolved", "direct", "imageError", 0, captures)
    /\ UNCHANGED <<userImage, viewVars, deviceVars, calVars, imgVars, geoVars,
                   filterVars>>

\* ensureImageLoaded: the 3000 ms timeout, if (!image.complete) onError(null)
ImageTimeout ==
    /\ exp.pc \in { "awaitDisplay", "awaitCalendar" }
    /\ exp.timer
    /\ IF exp.wait = "loading"
       THEN Settle("resolved", "direct", "imageTimeout", 0, captures)
       ELSE /\ exp' = [exp EXCEPT !.timer = FALSE]
            /\ UNCHANGED <<appVars, isSelected, captures, outcome, inFlight>>
    /\ UNCHANGED <<userImage, viewVars, deviceVars, calVars, imgVars, geoVars,
                   filterVars>>

GeomNext ==
    \/ handleFileChange
    \/ handleBack
    \/ renderCalendar
    \/ \E p \in 1..Len(Photos) : UserImgLoad(p)
    \/ CalendarImageLoad
    \/ \E v \in Viewports : handleResize(v)
    \/ handleSelect
    \/ handleDeselect
    \/ \E p \in DragPositions : onDragEnd(p[1], p[2])
    \/ \E newBox \in CandidateBoxes : Transform(newBox)
    \/ handleTransformEnd

\* the overlay geometry: stage sizing, placement, drag and resize
GeomSpec == GeomInit /\ [][GeomNext]_vars

Next ==
    \/ handleFileChange
    \/ handleBack
    \/ renderCalendar
    \/ CalendarImageLoad
    \/ handleSelect
    \/ handleDeselect
    \/ \E f \in Filters : handleFilterChange(f)
    \/ \E ok \in BOOLEAN : BakeImgLoad(ok)
    \/ BakeImgError
    \/ BakeTimeout
    \/ DisplayImageLoad
    \/ handleDownload
    \/ ExportTimer
    \/ ImageLoadEvent
    \/ ImageErrorEvent
    \/ ImageTimeout

SizeNext ==
    \/ handleFileChange
    \/ handleBack
    \/ renderCalendar
    \/ CalendarImageLoad
    \/ \E p \in 1..Len(Photos) : UserImgLoad(p)
    \/ DisplayImageLoad
    \/ handleDownload
    \/ ExportTimer
    \/ ImageLoadEvent
    \/ ImageErrorEvent
    \/ ImageTimeout

\* the export of a loaded photo, with no filter and no selection
SizeSpec == SizeInit /\ [][SizeNext]_vars

CalNext ==
    \/ handleFileChange
    \/ handleBack
    \/ renderCalendar
    \/ CalendarImageLoad
    \/ \E delta \in { 0 - 1, 1 } : changeMonth(delta)

\* month navigation and the calendar generator
CalSpec == CalInit /\ [][CalNext]_vars

RenderNext ==
    \/ handleFileChange
    \/ handleBack
    \/ \E font \in Fonts : handleFontChange(font)
    \/ renderCalendar
    \/ \E wait \in { "settles", "never" } : renderCalendarWaits(wait)
    \/ \E r \in renders : \E loaded \in BOOLEAN : FontLoadSettled(r, loaded)
    \/ CalendarImageLoad

\* the calendar generator with fonts that are not ready at mount
RenderSpec == RenderInit /\ [][RenderNext]_vars

\* the effect runs after the render that changed its props, and a font load
\* that settles does settle
FairRenderSpec ==
    /\ RenderSpec
    /\ WF_vars(renderCalendar)
    /\ WF_vars(\E wait \in { "settles", "never" } : renderCalendarWaits(wait))
    /\ WF_vars(\E r \in renders :
                   \E loaded \in BOOLEAN : FontLoadSettled(r, loaded))

RatioNext ==
    \/ handleFileChange
    \/ handleBack
    \/ \E v \in RatioViewports : handleResize(v)
    \/ renderCalendar
    \/ CalendarImageLoad
    \/ DisplayImageLoad
    \/ handleDownload
    \/ ExportTimer
    \/ ImageLoadEvent
    \/ ImageErrorEvent
    \/ ImageTimeout

\* the export on screens of every width class, resized at any time
RatioSpec == RatioInit /\ [][RatioNext]_vars

SelectNext ==
    \/ handleFileChange
    \/ handleBack
    \/ renderCalendar
    \/ CalendarImageLoad
    \/ DisplayImageLoad
    \/ handleSelect
    \/ onDblClick
    \/ handleDeselect
    \/ AttachError
    \/ handleDownload
    \/ ExportTimer
    \/ ImageLoadEvent
    \/ ImageErrorEvent
    \/ ImageTimeout

\* selection and export, with the attach of the Transformer able to fail
SelectSpec == Init /\ [][SelectNext]_vars

\* selection, filter bake and export, with the overlay where it was placed
Spec == Init /\ [][Next]_vars

\* the timers of the event loop fire: the 300 ms export timer and the
\* 3000 ms timeout of ensureImageLoaded
FairSpec == Spec /\ WF_vars(ExportTimer) /\ WF_vars(ImageTimeout)

----------------------------------------------------------------------------
(* Properties.                                                              *)

Contained(a, stage) ==
    /\ RLe(Num(0), a.x)
    /\ RLe(Num(0), a.y)
    /\ RLe(RAdd(a.x, a.width), stage.width)
    /\ RLe(RAdd(a.y, a.height), stage.height)

\* C1: after a drag-end or a transform-end, the committed overlay transform
\* lies within the stage: x >= 0, y >= 0, x + width <= stageWidth and
\* y + height <= stageHeight.
ContainmentAfterGesture ==
    lastCommit \in { "drag", "transform" } => Contained(calendarAttrs, photoSize)

\* C2: in every reachable state the committed overlay transform has
\* width >= 50 and height >= 50.
MinimumSizeInvariant ==
    /\ RLe(Num(MinBoxSize), calendarAttrs.width)
    /\ RLe(Num(MinBoxSize), calendarAttrs.height)

\* C3: at every capture step of an export (direct stage capture, reduced
\* density retry, manual composite) the Transformer is not rendered.
NoHandlesCaptured ==
    \A i \in DOMAIN captures : ~captures[i].handles

\* C3 witness: a capture was taken while isSelected was TRUE (the overlay was
\* tapped during the 300 ms settle delay) and no handles were rendered.
SelectedWhileCaptured ==
    \E i \in DOMAIN captures :
        captures[i].selected /\ ~captures[i].threw /\ ~captures[i].handles

\* C4: when getCleanRender settles, isSelected is back at the value it had
\* when getCleanRender was called (wasSelected).
SelectionRestored ==
    [][ (exp.pc # "idle" /\ exp'.pc = "idle" /\ ~exp.unmounted)
            => (isSelected' = exp.wasSelected) ]_vars

\* C5: with a non-'none' filter selected on a platform that bakes filters, no
\* capture of an export is taken while the bake of that filter is pending.
ExportWaitsForBake ==
    \A i \in DOMAIN captures :
        (captures[i].selectedFilter # "none" /\ ~captures[i].threw)
            => ~captures[i].bakePending

\* the failures of the manual composite after a successful direct capture
CompositeFailures ==
    { "noContext", "noDisplayImage", "drawError", "imageError", "imageTimeout" }

RetryUsesSmallerRatio ==
    (Len(captures) = 2 /\ captures[2].kind = "retry")
        => captures[2].ratio < captures[1].ratio

BothCapturesThrew ==
    /\ Len(captures) = 2
    /\ captures[1].threw
    /\ captures[2].threw

SingleFlightExport ==
    /\ inFlight \in { 0, 1 }
    /\ (inFlight = 1) = (exp.pc # "idle")
    /\ exp.pc # "idle" => DownloadDisabled

\* C9 witness: an export waits on an image while the download is disabled.
ExportInFlight ==
    inFlight = 1 /\ exp.pc = "awaitDisplay" /\ isDownloading

\* C10: every export request eventually settles and isDownloading returns
\* to false.
ExportEventuallySettles ==
    isDownloading ~> ~isDownloading

\* C11: on a platform where isMobile, isIOSDevice and isAndroidDevice are all
\* false, an export whose direct capture did not throw resolves with the
\* direct capture, and the manual composite is never attempted: the export
\* never waits on an image and takes no other capture.
NonMobileExport ==
    ~(isMobile \/ isIOSDevice \/ isAndroidDevice)
        => /\ exp.pc \in { "idle", "timer" }
           /\ (outcome.status # "none" /\ ~captures[1].threw)
                => (/\ outcome.status = "resolved"
                    /\ outcome.url = "direct"
                    /\ outcome.cause = "desktop"
                    /\ Len(captures) = 1)

\* C11 witness: a desktop export resolved with its one direct capture.
DesktopExportResolved ==
    /\ ~(isMobile \/ isIOSDevice \/ isAndroidDevice)
    /\ outcome.status = "resolved"
    /\ Len(captures) = 1
    /\ captures[1].kind = "direct"
    /\ ~captures[1].threw

BelowMinimum(box) ==
    RLt(box.width, Num(MinBoxSize)) \/ RLt(box.height, Num(MinBoxSize))

\* C12: for a candidate box with width < 50 or height < 50 the resize bounds
\* function returns the previous box unchanged in x, y, width and height,
\* and the same candidate applied again returns that box again.
ResizeRejection ==
    /\ (lastBound.called /\ BelowMinimum(lastBound.newBox))
        => /\ lastBound.box = lastBound.oldBox
           /\ boundBoxFunc(lastBound.box, lastBound.newBox, photoSize)
                = lastBound.box
    /\ \A newBox \in CandidateBoxes :
        BelowMinimum(newBox)
            => boundBoxFunc(NodeBox, newBox, photoSize) = NodeBox

\* C12 witness: a handle was dragged to a box below the minimum size after
\* the overlay had been resized, and the box stayed as it was.
CandidateRejected ==
    /\ lastBound.called
    /\ BelowMinimum(lastBound.newBox)
    /\ lastBound.box = lastBound.oldBox
    /\ NodeBox = lastBound.oldBox
    /\ node.scaleX # Num(1)

\* the lengths of the months of the civil calendar
MonthLength(month, year) ==
    LET leap == (year % 4 = 0 /\ year % 100 # 0) \/ year % 400 = 0
    IN  IF month = 1 THEN (IF leap THEN 29 ELSE 28)
        ELSE IF month \in { 3, 5, 8, 10 } THEN 30
        ELSE 31

\* the weekday of the first of a month by Zeller's congruence, 0 = Sunday
FirstWeekday(month, year) ==
    LET m == IF month < 2 THEN month + 13 ELSE month + 1
        y == IF month < 2 THEN year - 1 ELSE year
        K == y % 100
        J == y \div 100
        h == (1 + ((13 * (m + 1)) \div 5) + K + (K \div 4) + (J \div 4)
                + (5 * J)) % 7
    IN  (h + 6) % 7

\* C13: changeMonth(+1) from month 11 gives month 0 of the next year and
\* changeMonth(-1) from month 0 gives month 11 of the previous year; any
\* other step changes the month by delta and keeps the year; the month stays
\* in 0..11, and a step followed by the opposite step returns to the
\* original month and year.
MonthNavigation ==
    /\ calendarMonth \in 0..11
    /\ \A delta \in { 0 - 1, 1 } :
        LET new == changeMonthResult(calendarMonth, calendarYear, delta)
            back == changeMonthResult(new.month, new.year, 0 - delta)
        IN  /\ new.month \in 0..11
            /\ (calendarMonth = 11 /\ delta = 1)
                => new = [month |-> 0, year |-> calendarYear + 1]
            /\ (calendarMonth = 0 /\ delta = 0 - 1)
                => new = [month |-> 11, year |-> calendarYear - 1]
            /\ (calendarMonth + delta \in 0..11)
                => new = [month |-> calendarMonth + delta,
                          year |-> calendarYear]
            /\ back = [month |-> calendarMonth, year |-> calendarYear]

\* C13 witness: navigation went forward over the end of the mount year.
MonthWrapped ==
    /\ userImage
    /\ calendarMonth = 0
    /\ calendarYear = currentDate.year + 1

\* C14: the grid loop draws exactly the days 1..daysInMonth, each once,
\* none lost to the 6-row limit, day 1 in row 0 at column firstWeekday and
\* day d at grid index firstWeekday + d - 1.
DayGridComplete ==
    drawn # NothingDrawn =>
        LET cells == DayGrid(drawn.month, drawn.year)
            days == MonthLength(drawn.month, drawn.year)
            first == FirstWeekday(drawn.month, drawn.year)
        IN  /\ daysInMonth(drawn.month, drawn.year) = days
            /\ firstDay(drawn.month, drawn.year) = first
            /\ Cardinality({ i \in DOMAIN cells : cells[i] # 0 }) = days
            /\ first + days <= GridRows * GridCols
            /\ \A d \in 1..days :
                /\ cells[first + d] = d
                /\ Cardinality({ i \in DOMAIN cells : cells[i] = d }) = 1

\* C14 witness: a 31-day month that starts on a Saturday was drawn, its
\* last day in the sixth row.
SixRowMonthDrawn ==
    /\ drawn # NothingDrawn
    /\ firstDay(drawn.month, drawn.year) = 6
    /\ DayGrid(drawn.month, drawn.year)[37] = 31

\* C15: while the selected filter is 'none', filteredImage is null, the photo
\* shown is the source raster, neither the photo layer nor its container
\* carries a filter style, and an export started with 'none' draws the
\* source raster with no context filter, on every platform.
FilterNoneUnmodified ==
    /\ selectedFilter = "none"
        => /\ filteredImage = "null"
           /\ displayImage \in { "none", "photo" }
           /\ PhotoNodeStyle = "noStyle"
           /\ ContainerStyle = "noStyle"
    /\ (exp.pc # "idle" /\ exp.selectedFilter = "none")
        => /\ exp.displayImage \in { "none", "photo" }
           /\ ContextFilter(exp.selectedFilter) = "noStyle"
    /\ \A i \in DOMAIN captures :
        captures[i].selectedFilter = "none"
            => captures[i].style = "noStyle"

\* C15 witness: on an iPhone, with 'none' selected, the manual composite was
\* drawn without a context filter.
NoneExportedOnIOS ==
    /\ isIOSDevice
    /\ selectedFilter = "none"
    /\ \E i \in DOMAIN captures :
        /\ captures[i].kind = "manual"
        /\ captures[i].selectedFilter = "none"
        /\ captures[i].style = "noStyle"

MaxStageWidth == IF isMobile THEN Rat(innerWidth * 95, 100)
                 ELSE Rat(innerWidth * 8, 10)
MaxStageHeight == IF isMobile THEN Rat(innerHeight * 35, 100)
                  ELSE Rat(innerHeight * 6, 10)

SameAspect(size, img) ==
    RMul(size.width, Num(img.height)) = RMul(size.height, Num(img.width))

NotUpscaled(size, img) ==
    RLe(size.width, Num(img.width)) /\ RLe(size.height, Num(img.height))

\* C16: the stage size computed for the loaded photo and the viewport is at
\* most 0.8 x width and 0.6 x height of the viewport on desktop (0.95 and
\* 0.35 on mobile), keeps the photo's aspect ratio and does not exceed the
\* photo's natural width or height.
StageSizing ==
    userImg # 0 =>
        LET size == StageSize(Photos[userImg], isMobile, innerWidth,
                              innerHeight)
        IN  /\ RLe(size.width, MaxStageWidth)
            /\ RLe(size.height, MaxStageHeight)
            /\ SameAspect(size, Photos[userImg])
            /\ NotUpscaled(size, Photos[userImg])
            /\ SameAspect(photoSize, Photos[userImg])
            /\ NotUpscaled(photoSize, Photos[userImg])

\* C16 witness: a photo wider and taller than the viewport allows was
\* scaled down to the maximum height.
StageScaledToHeight ==
    /\ userImg # 0
    /\ photoSize = StageSize(Photos[userImg], isMobile, innerWidth,
                             innerHeight)
    /\ photoSize.height = MaxStageHeight
    /\ RLt(photoSize.width, MaxStageWidth)

\* C17: when the stage-size effect has placed the overlay, its width is 60%
\* of the stage width, its height is width x 850/1000 and it is centred,
\* on the node as in the committed transform.
PlacementRule ==
    lastCommit = "place" =>
        LET width == RMul(photoSize.width, Rat(6, 10))
            height == RMul(width, Rat(850, 1000))
        IN  /\ calendarAttrs.width = width
            /\ calendarAttrs.height = height
            /\ calendarAttrs.x = RDiv(RSub(photoSize.width, width), Num(2))
            /\ calendarAttrs.y = RDiv(RSub(photoSize.height, height), Num(2))
            /\ node.x = calendarAttrs.x
            /\ node.y = calendarAttrs.y

CeilingHolds(stage, ratio, canvas) ==
    LET targetWidth == RMul(stage.width, Num(ratio))
        targetHeight == RMul(stage.height, Num(ratio))
        fits == /\ RLe(targetWidth, Num(MaxDimension))
                /\ RLe(targetHeight, Num(MaxDimension))
    IN  /\ RLe(canvas.width, Num(MaxDimension))
        /\ RLe(canvas.height, Num(MaxDimension))
        /\ fits => canvas = [width |-> targetWidth, height |-> targetHeight]
        /\ ~fits
            => /\ RMul(canvas.width, stage.height)
                    = RMul(canvas.height, stage.width)
               /\ \/ canvas.width = Num(MaxDimension)
                  \/ canvas.height = Num(MaxDimension)

\* C18: the final canvas of the manual composite is at most 4096 wide and
\* high; a target of stage size x pixel ratio that fits is used unchanged,
\* and one that does not is scaled by one factor, so that it keeps the
\* stage's proportions and one dimension is 4096.
CanvasCeiling ==
    /\ \A i \in DOMAIN captures :
        captures[i].kind = "manual"
            => CeilingHolds(captures[i].stage, captures[i].ratio,
                            captures[i].canvas)

\* C18 witness: a manual composite of a loaded portrait photo whose target
\* height exceeded the ceiling was encoded on a canvas 4096 high.
CanvasReduced ==
    /\ userImg # 0
    /\ \E i \in DOMAIN captures :
        /\ captures[i].kind = "manual"
        /\ captures[i].stage = photoSize
        /\ RLt(Num(MaxDimension),
               RMul(photoSize.height, Num(captures[i].ratio)))
        /\ captures[i].canvas.height = Num(MaxDimension)
        /\ RLt(captures[i].canvas.width, Num(MaxDimension))

\* C19: for a candidate box of at least 50 x 50 the box returned by the
\* resize bounds function lies within the stage and is at least 50 x 50.
ResizeClamp ==
    (lastBound.called /\ ~BelowMinimum(lastBound.newBox))
        => /\ Contained(lastBound.box, photoSize)
           /\ ~BelowMinimum(lastBound.box)

\* C20: the overlay transform committed by the stage-size effect lies
\* within the stage and is at least 50 x 50.
PlacementKeepsInvariants ==
    lastCommit = "place"
        => /\ Contained(calendarAttrs, photoSize)
           /\ ~BelowMinimum(calendarAttrs)

\* C21: once the bake of the selected filter has committed its raster,
\* filteredImage keeps it for as long as the photo and the selected filter
\* stay what they are; the 3000 ms timeout does not reset it to null.
BakedRasterKept ==
    [][ (/\ filteredImage # "null"
         /\ filteredImage = selectedFilter
         /\ selectedFilter' = selectedFilter
         /\ userImage')
            => filteredImage' = filteredImage ]_vars

\* how often a filter's effect is in the photo drawn from a raster with a
\* context filter: once baked into the raster, once from the context
FilterApplications(raster, style) ==
    (IF raster \in { "none", "photo" } THEN 0 ELSE 1)
        + (IF style = "noStyle" THEN 0 ELSE 1)

\* C22: the photo drawn into the off-screen canvas of the manual composite
\* carries the selected filter's effect exactly once (and none for 'none').
FilterAppliedOnce ==
    \A i \in DOMAIN captures :
        captures[i].kind = "manual"
            => FilterApplications(captures[i].raster, captures[i].style)
                = (IF captures[i].selectedFilter = "none" THEN 0 ELSE 1)

\* C23: a pending bake is the bake of the selected filter, and a non-null
\* filteredImage is the bake of the selected filter or an earlier raster
\* that the pending bake of the selected filter will replace.
NoStaleBakeCommit ==
    /\ bake.img # "none" => bake.img = selectedFilter
    /\ filteredImage # "null"
        => (filteredImage = selectedFilter \/ bake.img = selectedFilter)
    /\ ~userImage => (filteredImage = "null" /\ bake = NoBake)

\* C23 witness: the raster of the filter selected before is still held
\* while the bake of the newly selected filter is pending.
EarlierRasterPending ==
    /\ filteredImage # "null"
    /\ filteredImage # selectedFilter
    /\ bake.img = selectedFilter

\* C24: once no render is waiting, the calendar data URL held by the editor
\* is the render of the current props of CalendarGenerator; a render started
\* for earlier props does not overwrite the render of later ones.
RenderConverges ==
    (userImage /\ renders = {} /\ effectRan = CalendarProps)
        => drawn = CalendarProps

\* C25: every render request eventually calls onGenerate: a render waiting
\* for its font does not wait forever.
RenderEventuallyGenerates ==
    (renders # {}) ~> (renders = {})

\* C26: a click, tap or double click on the overlay leads to Selected, also
\* after the Stage's handler has seen the event; a click whose target is
\* the stage leads to Deselected; isSelected changes in no other step than
\* these, the export's deselect and restore, the deselect on a failed
\* attach of the Transformer, and the unmount of the editor.
SelectionStateMachine ==
    [][ /\ (handleSelect \/ onDblClick) => isSelected'
        /\ handleDeselect => ~isSelected'
        /\ (isSelected' # isSelected)
            => \/ handleSelect \/ onDblClick
               \/ handleDeselect
               \/ AttachError
               \/ handleDownload /\ ~isSelected'
               \/ exp.pc # "idle" /\ exp'.pc = "idle" /\ exp.wasSelected
                    /\ isSelected'
               \/ handleBack ]_vars

\* C26 witness: the overlay is Selected by a tap while no export runs and
\* none has run.
SelectedByTap ==
    /\ isSelected
    /\ calendarImage
    /\ exp.pc = "idle"
    /\ outcome = NoOutcome

\* C27: a transform-end leaves the overlay node with scaleX = scaleY = 1,
\* commits width = min(nodeWidth * scaleX, stageWidth) and height =
\* min(nodeHeight * scaleY, stageHeight), gives every child the committed
\* width and height, and the committed size is the size of the box the
\* gesture ended with (capped at the stage), with no scale of an earlier
\* gesture in it.
TransformCommitBakesScale ==
    [][ (node.transforming /\ ~node'.transforming /\ userImage')
            => /\ node'.scaleX = Num(1)
               /\ node'.scaleY = Num(1)
               /\ calendarAttrs'.width
                    = RMin(RMul(node.width, node.scaleX), photoSize.width)
               /\ calendarAttrs'.height
                    = RMin(RMul(node.height, node.scaleY), photoSize.height)
               /\ node'.childWidth = calendarAttrs'.width
               /\ node'.childHeight = calendarAttrs'.height
               /\ node'.width = calendarAttrs'.width
               /\ node'.height = calendarAttrs'.height
               /\ node.width = calendarAttrs.width
               /\ node.height = calendarAttrs.height
               /\ calendarAttrs'.width
                    = RMin(lastBound.box.width, photoSize.width)
               /\ calendarAttrs'.height
                    = RMin(lastBound.box.height, photoSize.height) ]_vars

\* C27 witness: a resize to 200 x 160 has been committed.
ResizeCommitted ==
    /\ lastCommit = "transform"
    /\ calendarAttrs.width = Num(200)
    /\ calendarAttrs.height = Num(160)
    /\ node.scaleX = Num(1)
    /\ node.childWidth = Num(200)

\* C28: a drag-end leaves the displayed node at the committed (clamped)
\* position and the committed width and height as they were.
DragEndSnap ==
    [][ (\E p \in DragPositions : onDragEnd(p[1], p[2]))
            => /\ node'.x = calendarAttrs'.x
               /\ node'.y = calendarAttrs'.y
               /\ calendarAttrs'.width = calendarAttrs.width
               /\ calendarAttrs'.height = calendarAttrs.height ]_vars

\* C28 witness: a drop left of and above the stage was snapped to (0, 0).
DragSnapped ==
    /\ lastCommit = "drag"
    /\ calendarAttrs.x = Num(0)
    /\ calendarAttrs.y = Num(0)
    /\ node.x = Num(0)
    /\ node.y = Num(0)

\* C29: on iOS filteredImage stays null and nothing is baked; a bake whose
\* image fails to decode, whose 2D context is missing or whose drawing or
\* encoding throws sets filteredImage to null; whenever filteredImage is
\* null with a named filter selected, the photo node carries that filter's
\* style, its image is the photo itself, and the load of that image is not
\* held back.
FilterBakeFallback ==
    /\ [](/\ isIOSDevice => (filteredImage = "null" /\ bake = NoBake)
          /\ (userImage /\ selectedFilter # "none" /\ filteredImage = "null")
                => /\ PhotoNodeStyle = FilterStyle(selectedFilter)
                   /\ PhotoNodeStyle # "noStyle"
                   /\ displayImage \in { "none", "photo" }
                   /\ displayImage = "none" => ENABLED DisplayImageLoad)
    /\ [][ (BakeImgError \/ BakeImgLoad(FALSE)) => filteredImage' = "null" ]_vars

\* C29 witness: off iOS the bake of a named filter has failed before its
\* timeout, and the photo is shown with the filter's style.
BakeFailedFallback ==
    /\ ~isIOSDevice
    /\ selectedFilter # "none"
    /\ filteredImage = "null"
    /\ bake.img = "none"
    /\ bake.timer = "sawNull"
    /\ displayImage = "photo"
    /\ PhotoNodeStyle = FilterStyle(selectedFilter)

\* the multiplier the rule gives for a screen width
RatioRule(mobile, width) ==
    CASE ~mobile -> 3
      [] mobile /\ width <= 375 -> 8
      [] mobile /\ 375 < width /\ width <= 428 -> 7
      [] mobile /\ 428 < width /\ width <= 768 -> 6
      [] OTHER -> 3

\* C30: the multiplier of every capture is 3 when isMobile is false and,
\* when it is true, 8 up to width 375, 7 up to 428, 6 up to 768 and 3
\* above; it is one of 3, 6, 7, 8 and does not increase with the width.
PixelDensitySelection ==
    /\ \A i \in DOMAIN captures :
          captures[i].kind = "direct"
              => /\ captures[i].ratio
                      = RatioRule(captures[i].mobile, captures[i].screenWidth)
                 /\ captures[i].ratio \in { 3, 6, 7, 8 }
    /\ \A i \in DOMAIN captures :
          captures[i].kind = "manual" => captures[i].ratio = captures[1].ratio
    /\ \A mobile \in BOOLEAN : \A v, w \in RatioViewports :
          v[1] <= w[1]
              => ExportPixelRatio(mobile, w[1]) <= ExportPixelRatio(mobile, v[1])

\* C30 witness: an export started on a mobile-width screen captured after
\* the window had grown past 768 (isMobile of the closure still true), with
\* multiplier 3.
WideMobileCapture ==
    /\ Len(captures) >= 1
    /\ captures[1].kind = "direct"
    /\ captures[1].mobile
    /\ captures[1].screenWidth > MobileBreakpoint
    /\ captures[1].ratio = 3

====
